---- MODULE Spec2Model ----
(***************************************************************************)
(* A model of QueryEngine/TableOptimizer.cpp (omniscidb): the recomputation *)
(* of per-fragment chunk statistics and the vacuum of soft-deleted rows.    *)
(*                                                                          *)
(* One logical table td_ is modelled.  It is either unsharded (nShards = 0, *)
(* the table is its own physical table, id 0) or split into physical shards *)
(* 1..nShards.  Every physical table owns a list of fragments, a fragmenter *)
(* (the statistics store: chunk stats per fragment and column, and the row  *)
(* count) and an epoch.                                                     *)
(*                                                                          *)
(* The table has one fixed-width data column "x" (kINT), one variable       *)
(* length column "a" (kARRAY) and, when hasDeletedCol, the hidden marker    *)
(* column "$deleted" (kBOOLEAN).  A fragment is summarised by the number of *)
(* its rows of each kind, which is all an aggregate query can see:          *)
(*   del  rows that are soft-deleted (still physically present),            *)
(*   z    live rows whose x is 0,    o   live rows whose x is 1,            *)
(*   n    live rows whose x is NULL.                                        *)
(***************************************************************************)
EXTENDS Integers, Sequences, FiniteSets, TLC

\* ------------------------------------------------------------------ bounds
MaxFrags == 2
MaxTableRows == 3
MaxShards == 2
MaxEpoch == 2
MaxEntryRows == 2
MaxSharedRows == 1

VARIABLES
  nShards,            \* td_->nShards
  hasDeletedCol,      \* td_->hasDeletedCol
  frags,              \* physical table id -> sequence of fragments (the data)
  chunkStats,         \* physical table id -> fragment id -> column -> ChunkStats
  numRows,            \* physical table id -> the fragmenter's row count
  epoch,              \* physical table id -> epoch
  vac,                \* the locals of the running vacuumDeletedRows() call
  vghost,             \* history of the vacuum call: what the claims speak about
  vlog,               \* the catalog / file manager calls the vacuum call made
  gpusPresent,        \* data_mgr.gpusPresent()
  xType,              \* the SQL type of column x
  fault,              \* what the executor hands to the callback of one fragment
  execute_mutex,      \* executor_->execute_mutex_: 0, or the caller holding it
  table_data_lock,    \* the table's data write lock: 0, or the caller holding it
  row_set_mem_owner_, \* executor_->row_set_mem_owner_: "null" or "arena"
  threads,            \* the callers that run recompute calls
  call,               \* caller -> the locals of its recompute call
  rghost              \* history of the recompute passes

tableVars == <<nShards, hasDeletedCol, frags, chunkStats, numRows>>
vacVars == <<vac, vghost, vlog>>
envVars == <<gpusPresent, xType, fault>>
execVars == <<envVars, execute_mutex, table_data_lock, row_set_mem_owner_, threads>>
recVars == <<envVars, execute_mutex, table_data_lock, row_set_mem_owner_, threads,
             call, rghost>>
vars == <<nShards, hasDeletedCol, frags, chunkStats, numRows, epoch, vac, vghost, vlog,
          gpusPresent, xType, fault, execute_mutex, table_data_lock,
          row_set_mem_owner_, threads, call, rghost>>

\* ------------------------------------------------------------ table model
\* Catalog::getPhysicalTablesDescriptors: the shards, or the table itself.
PhysIds(n) == IF n = 0 THEN {0} ELSE 1..n

getPhysicalTablesDescriptors(n) == IF n = 0 THEN <<0>> ELSE [i \in 1..n |-> i]

Frag(d, z, o, n) == [del |-> d, z |-> z, o |-> o, n |-> n]

\* FragmentInfo::getPhysicalNumTuples
getPhysicalNumTuples(f) == f.del + f.z + f.o + f.n

LiveRows(f) == f.z + f.o + f.n

\* The fragments of at most r rows.
FragSet(r) ==
  {f \in {Frag(d, z, o, n) : d \in 0..r, z \in 0..r, o \in 0..r, n \in 0..r} :
     getPhysicalNumTuples(f) <= r}

RECURSIVE SumSeq(_)
SumSeq(s) == IF s = <<>> THEN 0 ELSE s[1] + SumSeq(Tail(s))

PhysRowsOf(fs) == SumSeq([i \in 1..Len(fs) |-> getPhysicalNumTuples(fs[i])])

LiveRowsOf(fs) == SumSeq([i \in 1..Len(fs) |-> LiveRows(fs[i])])

TableRows(n, fr) ==
  SumSeq([i \in 1..Len(getPhysicalTablesDescriptors(n)) |->
            PhysRowsOf(fr[getPhysicalTablesDescriptors(n)[i]])])

\* ChunkStats of a (fragment, column) that has none.
NoStats == [present |-> FALSE]

Stats(mn, mx, hn) == [present |-> TRUE, min |-> mn, max |-> mx, has_nulls |-> hn]

ColumnNames == {"x", "a", "$deleted"}

EmptyStore(n, fr) ==
  [t \in PhysIds(n) |-> [f \in 1..Len(fr[t]) |-> [c \in ColumnNames |-> NoStats]]]

\* --------------------------------------------------------------- vacuum
VacIdle ==
  [pc |-> "idle", table_epochs |-> <<>>, shards |-> <<>>, si |-> 0,
   thrown |-> "none", result |-> "none"]

VGhostIdle == [pre |-> <<>>, failed |-> "none", restoreFailed |-> FALSE]

\* The first k entries of the sequence of physical tables.
FirstK(n, k) == {getPhysicalTablesDescriptors(n)[i] : i \in 1..k}

\* line 383-385: const auto table_epochs = cat_.getTableEpochs(db_id, table_id);
VacGetTableEpochs ==
  /\ vac.pc = "idle"
  /\ \A t \in PhysIds(nShards) : epoch[t] < MaxEpoch
  /\ vac' = [VacIdle EXCEPT !.pc = "delete", !.table_epochs = epoch]
  /\ vghost' = [VGhostIdle EXCEPT !.pre = epoch]
  /\ vlog' = <<>>
  /\ UNCHANGED <<tableVars, epoch, recVars>>

\* Catalog::vacuumDeletedRows: the soft-deleted rows of the first k physical
\* tables are physically removed.
CompactRows(fr, n, k) ==
  [t \in PhysIds(n) |->
     IF t \in FirstK(n, k)
       THEN [i \in 1..Len(fr[t]) |-> [fr[t][i] EXCEPT !.del = 0]]
       ELSE fr[t]]

\* line 387: cat_.vacuumDeletedRows(table_id); it may throw part way.
VacDeleteRows ==
  /\ vac.pc = "delete"
  /\ \/ /\ frags' = CompactRows(frags, nShards, Cardinality(PhysIds(nShards)))
        /\ vac' = [vac EXCEPT !.pc = "checkpoint"]
        /\ vlog' = Append(vlog, <<"vacuumDeletedRows", "ok">>)
        /\ UNCHANGED vghost
     \/ /\ \E k \in 0..(Cardinality(PhysIds(nShards)) - 1) :
             frags' = CompactRows(frags, nShards, k)
        /\ vac' = [vac EXCEPT !.pc = "catch", !.thrown = "VacuumError"]
        /\ vlog' = Append(vlog, <<"vacuumDeletedRows", "throws">>)
        /\ vghost' = [vghost EXCEPT !.failed = "vacuumDeletedRows"]
  /\ UNCHANGED <<nShards, hasDeletedCol, chunkStats, numRows, epoch, recVars>>

\* Catalog::checkpoint: the epoch of the first k physical tables advances.
AdvanceEpochs(ep, n, k) ==
  [t \in PhysIds(n) |-> IF t \in FirstK(n, k) THEN ep[t] + 1 ELSE ep[t]]

\* A checkpoint placed after the try block: its failure is not caught.
VacCheckpointUncaught ==
  /\ vac.pc = "checkpoint"
  /\ \/ /\ epoch' = AdvanceEpochs(epoch, nShards, Cardinality(PhysIds(nShards)))
        /\ vac' = [vac EXCEPT !.pc = "shards"]
        /\ vlog' = Append(vlog, <<"checkpoint", "ok">>)
        /\ UNCHANGED vghost
     \/ /\ \E k \in 0..(Cardinality(PhysIds(nShards)) - 1) :
             epoch' = AdvanceEpochs(epoch, nShards, k)
        /\ vac' = [vac EXCEPT !.pc = "done", !.result = "CheckpointError"]
        /\ vlog' = Append(vlog, <<"checkpoint", "throws">>)
        /\ vghost' = [vghost EXCEPT !.failed = "checkpoint"]
  /\ UNCHANGED <<tableVars, recVars>>

\* line 388: cat_.checkpoint(table_id); it may throw part way.
VacCheckpoint ==
  /\ vac.pc = "checkpoint"
  /\ \/ /\ epoch' = AdvanceEpochs(epoch, nShards, Cardinality(PhysIds(nShards)))
        /\ vac' = [vac EXCEPT !.pc = "shards"]
        /\ vlog' = Append(vlog, <<"checkpoint", "ok">>)
        /\ UNCHANGED vghost
     \/ /\ \E k \in 0..(Cardinality(PhysIds(nShards)) - 1) :
             epoch' = AdvanceEpochs(epoch, nShards, k)
        /\ vac' = [vac EXCEPT !.pc = "catch", !.thrown = "CheckpointError"]
        /\ vlog' = Append(vlog, <<"checkpoint", "throws">>)
        /\ vghost' = [vghost EXCEPT !.failed = "checkpoint"]
  /\ UNCHANGED <<tableVars, recVars>>

\* Catalog::setTableEpochs stopped after k entries: the first k physical
\* tables have their recorded epoch back.
RestoreEpochs(ep, rec, n, k) ==
  [t \in PhysIds(n) |-> IF t \in FirstK(n, k) THEN rec[t] ELSE ep[t]]

\* A handler that lets the restoration's own failure replace the exception in
\* flight (cat_.setTableEpochs instead of setTableEpochsLogExceptions).
VacRethrowRestoreError(thrown, restore_error) ==
  IF restore_error # "none" THEN restore_error ELSE thrown

\* line 391: throw;  (the exception in flight, whatever the restoration met)
VacRethrow(thrown, restore_error) == thrown

\* A handler that forgets the rollback and only rethrows.
VacCatchNoRestore ==
  /\ vac.pc = "catch"
  /\ vac' = [vac EXCEPT !.pc = "done", !.result = VacRethrow(vac.thrown, "none")]
  /\ vlog' = Append(vlog, <<"rethrow", vac.thrown>>)
  /\ UNCHANGED <<tableVars, epoch, vghost, recVars>>

\* line 389-392: catch (...) { cat_.setTableEpochsLogExceptions(db_id,
\* table_epochs); throw; }   The restoration logs and swallows its own failure.
VacCatch ==
  /\ vac.pc = "catch"
  /\ \/ /\ epoch' = RestoreEpochs(epoch, vac.table_epochs, nShards,
                                  Cardinality(PhysIds(nShards)))
        /\ vac' = [vac EXCEPT !.pc = "done",
                              !.result = VacRethrow(vac.thrown, "none")]
        /\ vlog' = Append(vlog, <<"setTableEpochs", "ok">>)
        /\ UNCHANGED vghost
     \/ /\ \E k \in 0..(Cardinality(PhysIds(nShards)) - 1) :
             epoch' = RestoreEpochs(epoch, vac.table_epochs, nShards, k)
        /\ vac' = [vac EXCEPT !.pc = "done",
                              !.result = VacRethrow(vac.thrown, "SetEpochError")]
        /\ vlog' = Append(vlog, <<"setTableEpochs", "logged SetEpochError">>)
        /\ vghost' = [vghost EXCEPT !.restoreFailed = TRUE]
  /\ UNCHANGED <<tableVars, recVars>>

\* A loop over the first physical table only.
VacGetShardsFirstOnly ==
  /\ vac.pc = "shards"
  /\ vac' = [vac EXCEPT !.pc = "removeFragmenter",
                        !.shards = <<getPhysicalTablesDescriptors(nShards)[1]>>,
                        !.si = 1]
  /\ UNCHANGED <<tableVars, epoch, vghost, vlog, recVars>>

\* line 394: auto shards = cat_.getPhysicalTablesDescriptors(td_);
VacGetShards ==
  /\ vac.pc = "shards"
  /\ vac' = [vac EXCEPT !.pc = "removeFragmenter",
                        !.shards = getPhysicalTablesDescriptors(nShards),
                        !.si = 1]
  /\ UNCHANGED <<tableVars, epoch, vghost, vlog, recVars>>

\* line 395-396: cat_.removeFragmenterForTable(shard->tableId);
VacRemoveFragmenter ==
  /\ vac.pc = "removeFragmenter"
  /\ vac.si <= Len(vac.shards)
  /\ \/ /\ vac' = [vac EXCEPT !.pc = "compact"]
        /\ vlog' = Append(vlog, <<"removeFragmenterForTable", vac.shards[vac.si]>>)
        /\ UNCHANGED vghost
     \/ /\ vac' = [vac EXCEPT !.pc = "done", !.result = "RemoveFragmenterError"]
        /\ vlog' = Append(vlog, <<"removeFragmenterForTable", "throws">>)
        /\ vghost' = [vghost EXCEPT !.failed = "removeFragmenterForTable"]
  /\ UNCHANGED <<tableVars, epoch, recVars>>

\* line 397-398: getGlobalFileMgr()->compactDataFiles(db, shard->tableId);
VacCompactDataFiles ==
  /\ vac.pc = "compact"
  /\ \/ /\ vac' = [vac EXCEPT !.pc = "removeFragmenter", !.si = vac.si + 1]
        /\ vlog' = Append(vlog, <<"compactDataFiles", vac.shards[vac.si]>>)
        /\ UNCHANGED vghost
     \/ /\ vac' = [vac EXCEPT !.pc = "done", !.result = "CompactError"]
        /\ vlog' = Append(vlog, <<"compactDataFiles", "throws">>)
        /\ vghost' = [vghost EXCEPT !.failed = "compactDataFiles"]
  /\ UNCHANGED <<tableVars, epoch, recVars>>

\* line 395, 400: the loop is over; the call returns normally.
VacReturn ==
  /\ vac.pc = "removeFragmenter"
  /\ vac.si > Len(vac.shards)
  /\ vac' = [vac EXCEPT !.pc = "done", !.result = "ok"]
  /\ UNCHANGED <<tableVars, epoch, vghost, vlog, recVars>>

\* The caller starts over: a later vacuumDeletedRows() call on the same table.
VacAgain ==
  /\ vac.pc = "done"
  /\ vac' = VacIdle
  /\ vghost' = VGhostIdle
  /\ vlog' = <<>>
  /\ UNCHANGED <<tableVars, epoch, recVars>>

\* ------------------------------------------------- pure helpers (lines 31-114)
Callers == {1, 2}

\* SQLTypeInfo of the table's columns.  x is an integer column, or a column
\* of a fixed-width type set_metadata_from_results has no case for.
ColumnType(c) ==
  CASE c = "x" -> [type |-> xType, compression |-> "kENCODING_NONE"]
    [] c = "a" -> [type |-> "kARRAY", compression |-> "kENCODING_NONE"]
    [] c = "$deleted" -> [type |-> "kBOOLEAN", compression |-> "kENCODING_NONE"]

\* ColumnDescriptor::isDeletedCol
isDeletedCol(c) == c = "$deleted"

StringTypes == {"kVARCHAR", "kCHAR", "kTEXT"}

GeoTypes == {"kPOINT", "kLINESTRING", "kPOLYGON", "kMULTIPOLYGON"}

\* SQLTypeInfo::is_varlen
is_varlen(ti) ==
  \/ ti.type \in StringTypes /\ ti.compression # "kENCODING_DICT"
  \/ ti.type = "kARRAY"
  \/ ti.type \in GeoTypes

Int64Types ==
  {"kBOOLEAN", "kTINYINT", "kSMALLINT", "kINT", "kBIGINT", "kNUMERIC", "kDECIMAL",
   "kTIME", "kTIMESTAMP", "kDATE"}

\* A TargetValue holding a scalar of C++ type tag.
TargetValue(tag, v) == [tag |-> tag, val |-> v]

\* line 33-40: read_scalar_target_value<T>; both CHECKs pass iff the value
\* holds a scalar of type T.
read_scalar_target_value(T, tv) == [ok |-> tv.tag = T, val |-> tv.val]

\* line 42-88: set_metadata_from_results.  kind is "filled" (fillChunkStats
\* ran, true returned), "unfilled" (true returned, the chunk stats left as
\* constructed), "skip" (false returned) or "check" (a CHECK failed).
ReadMinMax(T, row, has_nulls) ==
  IF read_scalar_target_value(T, row[1]).ok /\ read_scalar_target_value(T, row[2]).ok
    THEN [kind |-> "filled",
          stats |-> Stats(read_scalar_target_value(T, row[1]).val,
                          read_scalar_target_value(T, row[2]).val, has_nulls)]
    ELSE [kind |-> "check"]

\* A set_metadata_from_results whose default case is a failed CHECK.
set_metadata_or_abort(row, ti, has_nulls) ==
  CASE ti.type \in Int64Types -> ReadMinMax("int64_t", row, has_nulls)
    [] ti.type = "kFLOAT" -> ReadMinMax("float", row, has_nulls)
    [] ti.type = "kDOUBLE" -> ReadMinMax("double", row, has_nulls)
    [] ti.type \in StringTypes ->
         IF ti.compression = "kENCODING_DICT"
           THEN ReadMinMax("int64_t", row, has_nulls)
           ELSE [kind |-> "unfilled"]
    [] OTHER -> [kind |-> "check"]

set_metadata_from_results(row, ti, has_nulls) ==
  CASE ti.type \in Int64Types -> ReadMinMax("int64_t", row, has_nulls)
    [] ti.type = "kFLOAT" -> ReadMinMax("float", row, has_nulls)
    [] ti.type = "kDOUBLE" -> ReadMinMax("double", row, has_nulls)
    [] ti.type \in StringTypes ->
         IF ti.compression = "kENCODING_DICT"
           THEN ReadMinMax("int64_t", row, has_nulls)
           ELSE [kind |-> "unfilled"]
    [] OTHER -> [kind |-> "skip"]

\* line 236, 345: the chunkStats of a ChunkMetadata nothing was filled into.
UnfilledStats ==
  [present |-> TRUE, min |-> "indeterminate", max |-> "indeterminate",
   has_nulls |-> "indeterminate"]

\* std::unordered_map::emplace: an existing key keeps its value.
Emplace(m, k, v) == IF k \in DOMAIN m THEN m ELSE (k :> v) @@ m

EmptyMap == <<>>

\* ------------------------------------------------ collaborators (not in src)
\* The executor hands every callback a well-formed row.
NoFault == [kind |-> "none", fid |-> 0]

\* line 231, 340: results->getNextRow(false, false) in the callback of
\* fragment fid.  A faulty executor hands the callback of one fragment a row
\* that lacks its last value ("arity") or whose last value is a double
\* ("type").
getNextRow(row, fid) ==
  IF fault.fid # fid THEN row
  ELSE CASE fault.kind = "arity" -> SubSeq(row, 1, Len(row) - 1)
         [] fault.kind = "type" -> [row EXCEPT ![Len(row)] = [@ EXCEPT !.tag = "double"]]
         [] OTHER -> row

\* Catalog::getAllColumnMetadataForTable(table_id, false, false, false): the
\* user columns, without the system column $deleted.
getAllColumnMetadataForTable == <<"x", "a">>

\* The aggregate the executor computes for one fragment.  A table with a
\* $deleted column is scanned without its deleted rows, so COUNT($deleted) is
\* the live row count; MIN, MAX and COUNT of x see the live non-null values.
NullSentinel == "NULL"

ProbeDeleted(f) == <<TargetValue("int64_t", LiveRows(f))>>

ProbeColumn(f) ==
  << TargetValue("int64_t",
        IF f.z > 0 THEN 0 ELSE IF f.o > 0 THEN 1 ELSE NullSentinel),
     TargetValue("int64_t",
        IF f.o > 0 THEN 1 ELSE IF f.z > 0 THEN 0 ELSE NullSentinel),
     TargetValue("int64_t", f.z + f.o) >>

\* Executor::executeWorkUnitPerFragment: the fragments the callback is called
\* for; an empty fragment_ids selects them all.
FragmentsToProcess(fs, fragment_ids) ==
  IF fragment_ids = {} THEN 1..Len(fs) ELSE fragment_ids \cap (1..Len(fs))

\* Fragmenter::updateChunkStats: the chunk stats of column cd are replaced for
\* the fragments of stats_map; the other fragments keep theirs.
updateChunkStats(store, cd, stats_map) ==
  [f \in DOMAIN store |->
     IF f \in DOMAIN stats_map THEN [store[f] EXCEPT ![cd] = stats_map[f]]
                               ELSE store[f]]

\* --------------------------------------------- callbacks (lines 216-279, 330-372)
\* Callbacks without the early return for an empty fragment.
EmptyFragmentIgnored(physical) == FALSE

\* line 224, 333: if (fragment_info.getPhysicalNumTuples() == 0) { ...; return; }
EmptyFragment(physical) == physical = 0

\* A total that is not reset: it starts from the row count already published.
InitialTotalFromPublished(published) == published

\* line 216: size_t total_num_tuples = 0;
InitialTotalNumTuples(published) == 0

\* A callback that adds the COUNT result (the live rows) to the total.
CountedLiveTuples(cd, physical, count_val) == IF isDeletedCol(cd) THEN count_val ELSE 0

\* line 221-223: what one callback adds to total_num_tuples.
CountedTuples(cd, physical, count_val) == IF isDeletedCol(cd) THEN physical ELSE 0

\* A fake row that reports "nothing deleted" as soon as one row is live.
DeletedFakeRowAnyLive(num_tuples, physical) ==
  IF num_tuples # 0
    THEN <<TargetValue("int64_t", 0), TargetValue("int64_t", 0)>>
    ELSE <<TargetValue("int64_t", 1), TargetValue("int64_t", 1)>>

\* line 242-267: the manufactured (min, max) of the $deleted column.
DeletedFakeRow(num_tuples, physical) ==
  IF num_tuples = physical
    THEN <<TargetValue("int64_t", 0), TargetValue("int64_t", 0)>>
    ELSE IF num_tuples = 0
      THEN <<TargetValue("int64_t", 1), TargetValue("int64_t", 1)>>
      ELSE <<TargetValue("int64_t", 0), TargetValue("int64_t", 1)>>

\* line 217-279: compute_deleted_callback for fragment id fid with data f.
\* The result is the new (stats_map, tuple_count_map, total_num_tuples), and
\* whether a CHECK failed.
compute_deleted_callback(cd, fid, f, row, sm, tcm, total) ==
  LET physical == getPhysicalNumTuples(f)
      count == read_scalar_target_value("int64_t", row[1])
      total2 == total + CountedTuples(cd, physical, count.val)
      md == set_metadata_from_results(DeletedFakeRow(count.val, physical),
                                      ColumnType(cd), FALSE)
  IN  IF EmptyFragment(physical)
        THEN [check |-> FALSE, stats_map |-> sm, tuple_count_map |-> tcm,
              total_num_tuples |-> total2]
      ELSE IF Len(row) # 1 \/ ~count.ok \/ md.kind = "check"
        THEN [check |-> TRUE, stats_map |-> sm, tuple_count_map |-> tcm,
              total_num_tuples |-> total2]
      ELSE IF md.kind = "skip"
        THEN [check |-> FALSE, stats_map |-> sm, tuple_count_map |-> tcm,
              total_num_tuples |-> total2]
      ELSE [check |-> FALSE,
            stats_map |-> Emplace(sm, fid, IF md.kind = "filled" THEN md.stats
                                                              ELSE UnfilledStats),
            tuple_count_map |-> Emplace(tcm, fid, count.val),
            total_num_tuples |-> total2]

\* A callback without the early return for an all-null chunk.
AllNullsNoBail(count_val) == FALSE

\* line 349: if (count_val == 0) { return; }
AllNullsBail(count_val) == count_val = 0

\* A has_nulls that ignores tuple_count_map and compares with the physical count.
HasNullsPhysical(count_val, fid, physical, tcm) == ~(count_val = physical)

\* line 354-362: has_nulls from the non-null count and the fragment's tuple
\* count (the live count of tuple_count_map, else the physical count).
HasNulls(count_val, fid, physical, tcm) ==
  IF fid \in DOMAIN tcm THEN ~(count_val = tcm[fid]) ELSE ~(count_val = physical)

\* line 330-372: compute_metadata_callback for fragment id fid with data f.
compute_metadata_callback(cd, fid, f, row, sm, tcm) ==
  LET physical == getPhysicalNumTuples(f)
      count == read_scalar_target_value("int64_t", row[3])
      md == set_metadata_from_results(row, ColumnType(cd),
                                      HasNulls(count.val, fid, physical, tcm))
  IN  IF EmptyFragment(physical) THEN [check |-> FALSE, stats_map |-> sm]
      ELSE IF Len(row) # 3 \/ ~count.ok THEN [check |-> TRUE, stats_map |-> sm]
      ELSE IF AllNullsBail(count.val) THEN [check |-> FALSE, stats_map |-> sm]
      ELSE IF md.kind = "check" THEN [check |-> TRUE, stats_map |-> sm]
      ELSE IF md.kind = "skip" THEN [check |-> FALSE, stats_map |-> sm]
      ELSE [check |-> FALSE,
            stats_map |-> Emplace(sm, fid, IF md.kind = "filled" THEN md.stats
                                                              ELSE UnfilledStats)]

\* ------------------------------------------------------ recompute: driver
CallIdle ==
  [pc |-> "idle", entry |-> "none", optimize_candidates |-> <<>>,
   columns_by_table_id |-> <<>>,
   table_descriptors |-> <<>>, ti |-> 0, col_descs |-> <<>>, ci |-> 0,
   cd |-> "none", memory_level |-> "none", fragment_ids |-> {}, visited |-> {},
   stats_map |-> EmptyMap, tuple_count_map |-> EmptyMap, total_num_tuples |-> 0,
   row_set_holder |-> FALSE, result |-> "none", log |-> <<>>]

NoSnapshot == [valid |-> FALSE]

Snapshot == [valid |-> TRUE, chunkStats |-> chunkStats, numRows |-> numRows]

\* start: the store when the running pass began.  last: the store at the end of
\* the latest pass, if that pass completed.  first: last at the start of the
\* running pass, if no row changed in between.  clean: no row changed since
\* the latest pass ended.
RGhostInit == [start |-> <<>>, first |-> NoSnapshot, last |-> NoSnapshot, clean |-> TRUE]

\* The physical table the call is working on.
CurTable(c) == call[c].table_descriptors[call[c].ti]

\* No scope guard: row_set_mem_owner_ is left as it is.
ScopeGuardMissing(alive, owner) == owner

\* line 139: ScopeGuard row_set_holder = [this] { row_set_mem_owner_ = nullptr; }
\* What row_set_mem_owner_ is once the guard (if constructed) went out of scope.
ScopeGuardExit(alive, owner) == IF alive THEN "null" ELSE owner

\* A lock taken with lock() and never given back.
ReleaseForgotten(holder, c) == holder

\* line 118, 136: a scoped lock is released when its scope is left.
ReleaseOnExit(holder, c) == IF holder = c THEN 0 ELSE holder

\* An exception err leaves recomputeMetadata: the stack unwinds.
Throw(c, err) ==
  /\ call' = [call EXCEPT ![c].pc = "done", ![c].result = err,
                          ![c].row_set_holder = FALSE,
                          ![c].log = Append(@, <<"throw", err>>)]
  /\ row_set_mem_owner_' = ScopeGuardExit(call[c].row_set_holder, row_set_mem_owner_)
  /\ table_data_lock' = ReleaseOnExit(table_data_lock, c)
  /\ execute_mutex' = ReleaseOnExit(execute_mutex, c)
  /\ rghost' = [rghost EXCEPT !.first = NoSnapshot, !.last = NoSnapshot]

\* line 116-118: mapd_unique_lock<mapd_shared_mutex> lock(execute_mutex_);
RmLockExecute(c) ==
  /\ c \in threads
  /\ call[c].pc \in {"idle", "done"}
  /\ call[c].result \in {"none", "ok"}
  /\ execute_mutex = 0
  /\ \A t \in PhysIds(nShards) : epoch[t] < MaxEpoch
  /\ execute_mutex' = c
  /\ call' = [call EXCEPT ![c] = [CallIdle EXCEPT !.pc = "resolve",
                                                   !.entry = "recomputeMetadata"]]
  /\ rghost' = [rghost EXCEPT !.start = chunkStats,
                              !.first = IF rghost.clean THEN rghost.last ELSE NoSnapshot,
                              !.clean = TRUE]
  /\ UNCHANGED <<tableVars, epoch, vacVars, envVars, table_data_lock,
                 row_set_mem_owner_, threads>>

\* line 124-133: the physical tables of td_ (read from the catalog when the
\* table is sharded).
RmResolve(c) ==
  /\ call[c].pc = "resolve"
  /\ call' = [call EXCEPT ![c].pc = "dataLock",
                ![c].table_descriptors =
                   IF nShards > 0 THEN getPhysicalTablesDescriptors(nShards) ELSE <<0>>,
                ![c].ti = 1]
  /\ UNCHANGED <<tableVars, epoch, vacVars, execVars, rghost>>

\* A write lock that is not bound to a variable: released at once.
RmDataLockTemporary(c) ==
  /\ call[c].pc = "dataLock"
  /\ table_data_lock = 0
  /\ call' = [call EXCEPT ![c].pc = "loop"]
  /\ UNCHANGED <<tableVars, epoch, vacVars, execVars, rghost>>

\* line 135-136: auto data_lock = TableDataLockMgr::getWriteLockForTable(...)
RmDataLock(c) ==
  /\ call[c].pc = "dataLock"
  /\ table_data_lock = 0
  /\ table_data_lock' = c
  /\ call' = [call EXCEPT ![c].pc = "loop"]
  /\ UNCHANGED <<tableVars, epoch, vacVars, envVars, execute_mutex,
                 row_set_mem_owner_, threads, rghost>>

\* line 138-146: the loop body starts for the next physical table: the scope
\* guard, the new RowSetMemoryOwner, an empty tuple_count_map.
RmInstallArena(c) ==
  /\ call[c].pc = "loop"
  /\ call[c].ti <= Len(call[c].table_descriptors)
  /\ row_set_mem_owner_' = "arena"
  /\ call' = [call EXCEPT ![c].pc = "deleted", ![c].row_set_holder = TRUE,
                          ![c].tuple_count_map = EmptyMap,
                          ![c].memory_level = "none", ![c].fragment_ids = {}]
  /\ UNCHANGED <<tableVars, epoch, vacVars, envVars, execute_mutex,
                 table_data_lock, threads, rghost>>

\* line 150, 176: the columns the entry point goes through for the table.
ColumnsOf(c) ==
  IF call[c].entry = "recomputeMetadata"
    THEN getAllColumnMetadataForTable
    ELSE call[c].columns_by_table_id[CurTable(c)]

\* line 152, 181: the memory_level argument of recomputeColumnMetadata.
MemoryLevelOf(c) ==
  IF call[c].entry = "recomputeMetadata" THEN "none" ELSE "CPU_LEVEL"

\* A call that passes {} in both entry points.
FragmentIdsOfAll(c, cd) == {}

\* line 152, 182: the fragment_ids argument of recomputeColumnMetadata.
FragmentIdsOf(c, cd) ==
  IF call[c].entry = "recomputeMetadata"
    THEN {}
    ELSE call[c].optimize_candidates[<<CurTable(c), cd>>]

\* line 190-216: recomputeDeletedColumnMetadata starts (line 147, 175).
RdcEnter(c) ==
  /\ call[c].pc = "deleted"
  /\ call' = IF ~hasDeletedCol
       THEN [call EXCEPT ![c].pc = "columns", ![c].ci = 1,
                         ![c].col_descs = ColumnsOf(c)]
       ELSE [call EXCEPT ![c].pc = "deletedProbe", ![c].cd = "$deleted",
                         ![c].stats_map = EmptyMap, ![c].visited = {},
                         ![c].total_num_tuples =
                            InitialTotalNumTuples(numRows[CurTable(c)])]
  /\ UNCHANGED <<tableVars, epoch, vacVars, execVars, rghost>>

\* A CHECK failed: the process aborts.
Abort(c) == [call EXCEPT ![c].pc = "aborted", ![c].result = "CHECK failed"]

\* line 281-282: executeWorkUnitPerFragment runs the COUNT for one more
\* fragment and calls compute_deleted_callback, or throws.
RdcCallback(c) ==
  /\ call[c].pc = "deletedProbe"
  /\ \/ /\ \E fid \in FragmentsToProcess(frags[CurTable(c)], {}) \ call[c].visited :
             LET r == compute_deleted_callback(call[c].cd, fid, frags[CurTable(c)][fid],
                         getNextRow(ProbeDeleted(frags[CurTable(c)][fid]), fid),
                         call[c].stats_map,
                         call[c].tuple_count_map, call[c].total_num_tuples)
             IN call' = IF r.check THEN Abort(c)
                  ELSE [call EXCEPT ![c].visited = @ \cup {fid},
                                    ![c].stats_map = r.stats_map,
                                    ![c].tuple_count_map = r.tuple_count_map,
                                    ![c].total_num_tuples = r.total_num_tuples]
        /\ UNCHANGED <<execute_mutex, table_data_lock, row_set_mem_owner_, rghost>>
     \/ Throw(c, "ProbeError")
  /\ UNCHANGED <<tableVars, epoch, vacVars, envVars, threads>>

\* line 284-286: fragmenter->updateChunkStats(cd, stats_map, {}), or it throws.
RdcUpdateChunkStats(c) ==
  /\ call[c].pc = "deletedProbe"
  /\ call[c].visited = FragmentsToProcess(frags[CurTable(c)], {})
  /\ \/ /\ chunkStats' = [chunkStats EXCEPT ![CurTable(c)] =
                            updateChunkStats(@, call[c].cd, call[c].stats_map)]
        /\ call' = [call EXCEPT ![c].pc = "setNumRows",
                      ![c].log = Append(@, <<"updateChunkStats", CurTable(c),
                                            call[c].cd, "durable">>)]
        /\ UNCHANGED <<execute_mutex, table_data_lock, row_set_mem_owner_, rghost>>
     \/ /\ Throw(c, "UpdateStatsError")
        /\ UNCHANGED chunkStats
  /\ UNCHANGED <<nShards, hasDeletedCol, frags, numRows, epoch, vacVars, envVars,
                 threads>>

\* line 287: fragmenter->setNumRows(total_num_tuples); the function returns and
\* line 150 reads the table's columns.
RdcSetNumRows(c) ==
  /\ call[c].pc = "setNumRows"
  /\ numRows' = [numRows EXCEPT ![CurTable(c)] = call[c].total_num_tuples]
  /\ call' = [call EXCEPT ![c].pc = "columns", ![c].ci = 1,
                          ![c].col_descs = ColumnsOf(c),
                          ![c].log = Append(@, <<"setNumRows", CurTable(c)>>)]
  /\ UNCHANGED <<nShards, hasDeletedCol, frags, chunkStats, epoch, vacVars, execVars,
                 rghost>>

\* A recomputeColumnMetadata without the is_varlen test of line 297.
RcmEnterNoSkip(c) ==
  /\ call[c].pc = "columns"
  /\ call[c].ci <= Len(call[c].col_descs)
  /\ call' = [call EXCEPT ![c].pc = "columnProbe",
                          ![c].cd = call[c].col_descs[call[c].ci],
                          ![c].memory_level = MemoryLevelOf(c),
                          ![c].fragment_ids =
                             FragmentIdsOf(c, call[c].col_descs[call[c].ci]),
                          ![c].stats_map = EmptyMap, ![c].visited = {}]
  /\ UNCHANGED <<tableVars, epoch, vacVars, execVars, rghost>>

\* line 151-152, 290-328: recomputeColumnMetadata starts for the next column;
\* a varlen column is skipped.
RcmEnter(c) ==
  /\ call[c].pc = "columns"
  /\ call[c].ci <= Len(call[c].col_descs)
  /\ call' = IF is_varlen(ColumnType(call[c].col_descs[call[c].ci]))
       THEN [call EXCEPT ![c].ci = @ + 1]
       ELSE [call EXCEPT ![c].pc = "columnProbe",
                         ![c].cd = call[c].col_descs[call[c].ci],
                         ![c].memory_level = MemoryLevelOf(c),
                         ![c].fragment_ids =
                            FragmentIdsOf(c, call[c].col_descs[call[c].ci]),
                         ![c].stats_map = EmptyMap, ![c].visited = {}]
  /\ UNCHANGED <<tableVars, epoch, vacVars, execVars, rghost>>

\* line 374-375: executeWorkUnitPerFragment runs MIN, MAX, COUNT for one more
\* fragment and calls compute_metadata_callback, or throws.
RcmCallback(c) ==
  /\ call[c].pc = "columnProbe"
  /\ \/ /\ \E fid \in FragmentsToProcess(frags[CurTable(c)], call[c].fragment_ids)
                        \ call[c].visited :
             LET r == compute_metadata_callback(call[c].cd, fid,
                         frags[CurTable(c)][fid],
                         getNextRow(ProbeColumn(frags[CurTable(c)][fid]), fid),
                         call[c].stats_map, call[c].tuple_count_map)
             IN call' = IF r.check THEN Abort(c)
                  ELSE [call EXCEPT ![c].visited = @ \cup {fid},
                                    ![c].stats_map = r.stats_map]
        /\ UNCHANGED <<execute_mutex, table_data_lock, row_set_mem_owner_, rghost>>
     \/ Throw(c, "ProbeError")
  /\ UNCHANGED <<tableVars, epoch, vacVars, envVars, threads>>

\* An update that does not wait for the callbacks of all fragments.
RcmUpdateChunkStatsEarly(c) ==
  /\ call[c].pc = "columnProbe"
  /\ chunkStats' = [chunkStats EXCEPT ![CurTable(c)] =
                      updateChunkStats(@, call[c].cd, call[c].stats_map)]
  /\ call' = [call EXCEPT ![c].pc = "columns", ![c].ci = @ + 1,
                ![c].log = Append(@, <<"updateChunkStats", CurTable(c),
                   call[c].cd,
                   IF call[c].memory_level = "none" THEN "durable"
                                                    ELSE call[c].memory_level>>)]
  /\ UNCHANGED <<nShards, hasDeletedCol, frags, numRows, epoch, vacVars, execVars,
                 rghost>>

\* line 377-379: fragmenter->updateChunkStats(cd, stats_map, memory_level), or
\* it throws.
RcmUpdateChunkStats(c) ==
  /\ call[c].pc = "columnProbe"
  /\ call[c].visited = FragmentsToProcess(frags[CurTable(c)], call[c].fragment_ids)
  /\ \/ /\ chunkStats' = [chunkStats EXCEPT ![CurTable(c)] =
                            updateChunkStats(@, call[c].cd, call[c].stats_map)]
        /\ call' = [call EXCEPT ![c].pc = "columns", ![c].ci = @ + 1,
                      ![c].log = Append(@, <<"updateChunkStats", CurTable(c),
                         call[c].cd,
                         IF call[c].memory_level = "none" THEN "durable"
                                                          ELSE call[c].memory_level>>)]
        /\ UNCHANGED <<execute_mutex, table_data_lock, row_set_mem_owner_, rghost>>
     \/ /\ Throw(c, "UpdateStatsError")
        /\ UNCHANGED chunkStats
  /\ UNCHANGED <<nShards, hasDeletedCol, frags, numRows, epoch, vacVars, envVars,
                 threads>>

\* line 154: data_mgr.checkpoint(db, table_id), or it throws.
RmCheckpoint(c) ==
  /\ call[c].pc = "columns"
  /\ call[c].entry = "recomputeMetadata"
  /\ call[c].ci > Len(call[c].col_descs)
  /\ \/ /\ epoch' = [epoch EXCEPT ![CurTable(c)] = @ + 1]
        /\ call' = [call EXCEPT ![c].pc = "clearMetaInfoCache",
                      ![c].log = Append(@, <<"checkpoint", CurTable(c)>>)]
        /\ UNCHANGED <<execute_mutex, table_data_lock, row_set_mem_owner_, rghost>>
     \/ /\ Throw(c, "CheckpointError")
        /\ UNCHANGED epoch
  /\ UNCHANGED <<tableVars, vacVars, envVars, threads>>

\* line 155-156: executor_->clearMetaInfoCache() (or it throws); the loop body
\* ends and row_set_holder goes out of scope.
RmClearMetaInfoCache(c) ==
  /\ call[c].pc = "clearMetaInfoCache"
  /\ \/ /\ call' = [call EXCEPT ![c].pc = "loop", ![c].ti = @ + 1,
                      ![c].row_set_holder = FALSE,
                      ![c].log = Append(@, <<"clearMetaInfoCache", CurTable(c)>>)]
        /\ row_set_mem_owner_' =
             ScopeGuardExit(call[c].row_set_holder, row_set_mem_owner_)
        /\ UNCHANGED <<execute_mutex, table_data_lock, rghost>>
     \/ Throw(c, "ClearCacheError")
  /\ UNCHANGED <<tableVars, epoch, vacVars, envVars, threads>>

\* A clearMemory placed inside the loop: it runs before the next shard.
RmClearMemoryInLoop(c) ==
  /\ call[c].pc = "loop"
  /\ call[c].ti > 1
  /\ call' = [call EXCEPT ![c].pc = "return",
                ![c].log = IF gpusPresent
                  THEN @ \o <<<<"clearMemory", "CPU_LEVEL">>, <<"clearMemory", "GPU_LEVEL">>>>
                  ELSE Append(@, <<"clearMemory", "CPU_LEVEL">>)]
  /\ UNCHANGED <<tableVars, epoch, vacVars, execVars, rghost>>

\* line 158-161: after the loop, clearMemory(CPU_LEVEL) and, with GPUs,
\* clearMemory(GPU_LEVEL).
RmClearMemory(c) ==
  /\ call[c].pc = "loop"
  /\ call[c].ti > Len(call[c].table_descriptors)
  /\ call' = [call EXCEPT ![c].pc = "return",
                ![c].log = IF gpusPresent
                  THEN @ \o <<<<"clearMemory", "CPU_LEVEL">>, <<"clearMemory", "GPU_LEVEL">>>>
                  ELSE Append(@, <<"clearMemory", "CPU_LEVEL">>)]
  /\ UNCHANGED <<tableVars, epoch, vacVars, execVars, rghost>>

\* line 162: the function returns; data_lock and lock are released.
RmReturn(c) ==
  /\ call[c].pc = "return"
  /\ call' = [call EXCEPT ![c].pc = "done", ![c].result = "ok"]
  /\ table_data_lock' = ReleaseOnExit(table_data_lock, c)
  /\ execute_mutex' = ReleaseOnExit(execute_mutex, c)
  /\ rghost' = [rghost EXCEPT !.last = Snapshot]
  /\ UNCHANGED <<tableVars, epoch, vacVars, envVars, row_set_mem_owner_, threads>>

\* ------------------------------------- recomputeMetadataUnlocked (164-185)
\* The sequence of the elements of a set of table ids, ascending (std::map).
Ascending(S) ==
  CHOOSE q \in [1..Cardinality(S) -> S] : \A i, j \in 1..Cardinality(S) : i < j => q[i] < q[j]

\* The orders a set of columns can be listed in.
Orders(C) ==
  {q \in [1..Cardinality(C) -> C] : \A i, j \in 1..Cardinality(C) : q[i] = q[j] => i = j}

\* The fragment ids in use in the table.
FragmentIds == UNION {1..Len(frags[t]) : t \in PhysIds(nShards)}

\* optimize_candidates: a map from the column descriptors of physical tables
\* to fragment ids.  The model draws the maps that name the columns C of the
\* tables T with the fragment ids F.
CandidateMaps ==
  {[k \in T \X C |-> F] : T \in SUBSET PhysIds(nShards), C \in SUBSET {"x", "a"},
                          F \in SUBSET FragmentIds}

NamedTables(oc) == {k[1] : k \in DOMAIN oc}

NamedColumns(oc, t) == {k[2] : k \in {j \in DOMAIN oc : j[1] = t}}

\* line 166-170: columns_by_table_id; the columns of a table are listed in the
\* order of their descriptors' addresses, which is any order.
ColumnsByTableId(oc) ==
  {m \in [NamedTables(oc) -> UNION {Orders(C) : C \in SUBSET {"x", "a"}}] :
     \A t \in NamedTables(oc) : {m[t][i] : i \in 1..Len(m[t])} = NamedColumns(oc, t)}

\* line 164-170: the call starts and groups the columns by table.
RuGroup(c) ==
  /\ c \in threads
  /\ call[c].pc = "idle"
  /\ \E oc \in CandidateMaps : \E m \in ColumnsByTableId(oc) :
       call' = [call EXCEPT ![c] =
                  [CallIdle EXCEPT !.pc = "tables",
                                   !.entry = "recomputeMetadataUnlocked",
                                   !.optimize_candidates = oc,
                                   !.columns_by_table_id = m,
                                   !.table_descriptors = Ascending(NamedTables(oc)),
                                   !.ti = 1]]
  /\ rghost' = [rghost EXCEPT !.start = chunkStats, !.first = NoSnapshot,
                              !.clean = TRUE]
  /\ UNCHANGED <<tableVars, epoch, vacVars, execVars>>

\* A loop body that goes to the columns without the derivation of line 175.
RuNextTableColumnsFirst(c) ==
  /\ call[c].pc = "tables"
  /\ call[c].ti <= Len(call[c].table_descriptors)
  /\ call' = [call EXCEPT ![c].pc = "columns", ![c].ci = 1,
                          ![c].col_descs = ColumnsOf(c),
                          ![c].tuple_count_map = EmptyMap]
  /\ UNCHANGED <<tableVars, epoch, vacVars, execVars, rghost>>

\* line 172-175: the next table of columns_by_table_id, with a new
\* tuple_count_map; recomputeDeletedColumnMetadata is called.
RuNextTable(c) ==
  /\ call[c].pc = "tables"
  /\ call[c].ti <= Len(call[c].table_descriptors)
  /\ call' = [call EXCEPT ![c].pc = "deleted", ![c].tuple_count_map = EmptyMap]
  /\ UNCHANGED <<tableVars, epoch, vacVars, execVars, rghost>>

\* line 176-184: the columns of the table are done.
RuEndTable(c) ==
  /\ call[c].pc = "columns"
  /\ call[c].entry = "recomputeMetadataUnlocked"
  /\ call[c].ci > Len(call[c].col_descs)
  /\ call' = [call EXCEPT ![c].pc = "tables", ![c].ti = @ + 1]
  /\ UNCHANGED <<tableVars, epoch, vacVars, execVars, rghost>>

\* line 172, 185: the loop is over; the call returns.
RuReturn(c) ==
  /\ call[c].pc = "tables"
  /\ call[c].ti > Len(call[c].table_descriptors)
  /\ call' = [call EXCEPT ![c].pc = "done", ![c].result = "ok"]
  /\ UNCHANGED <<tableVars, epoch, vacVars, execVars, rghost>>

\* Another session soft-deletes one live row of a fragment (a DELETE): it holds
\* the table's data lock while it marks the row.
SoftDeleteRow ==
  /\ hasDeletedCol
  /\ table_data_lock = 0
  /\ \A c \in threads : call[c].pc = "done"
  /\ rghost.clean
  /\ \E t \in PhysIds(nShards) : \E fid \in 1..Len(frags[t]) :
       \E k \in {"z", "o", "n"} :
         /\ frags[t][fid][k] > 0
         /\ frags' = [frags EXCEPT ![t][fid][k] = @ - 1, ![t][fid].del = @ + 1]
  /\ rghost' = [rghost EXCEPT !.clean = FALSE, !.first = NoSnapshot]
  /\ UNCHANGED <<nShards, hasDeletedCol, chunkStats, numRows, epoch, vacVars, execVars,
                 call>>

RecomputeIdle ==
  /\ execute_mutex = 0
  /\ table_data_lock = 0
  /\ row_set_mem_owner_ = "null"
  /\ threads = {1}
  /\ call = [c \in Callers |-> CallIdle]
  /\ rghost = RGhostInit

\* An unsharded table with up to MaxFrags fragments and MaxTableRows rows.
Init ==
  /\ nShards = 0
  /\ hasDeletedCol \in BOOLEAN
  /\ \E k \in 0..MaxFrags : frags \in [PhysIds(nShards) -> [1..k -> FragSet(MaxTableRows)]]
  /\ TableRows(nShards, frags) <= MaxTableRows
  /\ ~hasDeletedCol => \A t \in PhysIds(nShards) : \A i \in 1..Len(frags[t]) :
                          frags[t][i].del = 0
  /\ chunkStats = EmptyStore(nShards, frags)
  /\ numRows = [t \in PhysIds(nShards) |-> PhysRowsOf(frags[t])]
  /\ epoch = [t \in PhysIds(nShards) |-> 0]
  /\ vac = VacIdle
  /\ vghost = VGhostIdle
  /\ vlog = <<>>
  /\ gpusPresent = FALSE
  /\ xType = "kINT"
  /\ fault = NoFault
  /\ RecomputeIdle

\* A sharded table: every shard holds one fragment, whose live rows have x = 0
\* or x = NULL.
InitSharded ==
  /\ nShards \in 1..MaxShards
  /\ hasDeletedCol \in BOOLEAN
  /\ frags \in [PhysIds(nShards) ->
                  [1..1 -> {f \in FragSet(MaxTableRows) : f.o = 0}]]
  /\ TableRows(nShards, frags) <= MaxTableRows
  /\ ~hasDeletedCol => \A t \in PhysIds(nShards) : \A i \in 1..Len(frags[t]) :
                          frags[t][i].del = 0
  /\ chunkStats = EmptyStore(nShards, frags)
  /\ numRows = [t \in PhysIds(nShards) |-> PhysRowsOf(frags[t])]
  /\ epoch = [t \in PhysIds(nShards) |-> 0]
  /\ vac = VacIdle
  /\ vghost = VGhostIdle
  /\ vlog = <<>>
  /\ gpusPresent \in BOOLEAN
  /\ xType = "kINT"
  /\ fault = NoFault
  /\ RecomputeIdle

Next ==
  \/ \E c \in Callers : RmLockExecute(c)
  \/ \E c \in Callers : RmResolve(c)
  \/ \E c \in Callers : RmDataLock(c)
  \/ \E c \in Callers : RmInstallArena(c)
  \/ \E c \in Callers : RdcEnter(c)
  \/ \E c \in Callers : RdcCallback(c)
  \/ \E c \in Callers : RdcUpdateChunkStats(c)
  \/ \E c \in Callers : RdcSetNumRows(c)
  \/ \E c \in Callers : RcmEnter(c)
  \/ \E c \in Callers : RcmCallback(c)
  \/ \E c \in Callers : RcmUpdateChunkStats(c)
  \/ \E c \in Callers : RmCheckpoint(c)
  \/ \E c \in Callers : RmClearMetaInfoCache(c)
  \/ \E c \in Callers : RmClearMemory(c)
  \/ \E c \in Callers : RmReturn(c)
  \/ SoftDeleteRow

Spec == Init /\ [][Next]_vars

SpecSharded == InitSharded /\ [][Next]_vars

\* One table of up to MaxEntryRows rows, unsharded with up to MaxFrags
\* fragments or sharded with one fragment per shard.
SmallTable ==
  /\ nShards \in 0..MaxShards
  /\ hasDeletedCol \in BOOLEAN
  /\ \E k \in 0..MaxFrags :
        frags \in [PhysIds(nShards) ->
                     [1..(IF nShards = 0 THEN k ELSE 1) ->
                        {f \in FragSet(MaxEntryRows) : f.o = 0}]]
  /\ TableRows(nShards, frags) <= MaxEntryRows
  /\ ~hasDeletedCol => \A t \in PhysIds(nShards) : \A i \in 1..Len(frags[t]) :
                          frags[t][i].del = 0
  /\ chunkStats = EmptyStore(nShards, frags)
  /\ numRows = [t \in PhysIds(nShards) |-> PhysRowsOf(frags[t])]
  /\ epoch = [t \in PhysIds(nShards) |-> 0]
  /\ vac = VacIdle
  /\ vghost = VGhostIdle
  /\ vlog = <<>>
  /\ gpusPresent = FALSE

\* Callers that enter through either entry point.
InitEntryPoints ==
  /\ SmallTable
  /\ xType = "kINT"
  /\ fault = NoFault
  /\ RecomputeIdle

\* The result rows a faulty executor may hand over.
Faults == {NoFault} \cup [kind : {"arity", "type"}, fid : 1..MaxFrags]

\* x may have a type without statistics, and the executor may be faulty.
InitFaulty ==
  /\ SmallTable
  /\ xType \in {"kINT", "kINTERVAL_DAY_TIME"}
  /\ fault \in Faults
  /\ RecomputeIdle

\* line 116: a caller's one call of recomputeMetadata.
RmCallOnce(c) == call[c].pc = "idle" /\ RmLockExecute(c)

NextEntryPoints ==
  \/ \E c \in Callers : RmCallOnce(c)
  \/ \E c \in Callers : RmResolve(c)
  \/ \E c \in Callers : RmDataLock(c)
  \/ \E c \in Callers : RmInstallArena(c)
  \/ \E c \in Callers : RuGroup(c)
  \/ \E c \in Callers : RuNextTable(c)
  \/ \E c \in Callers : RdcEnter(c)
  \/ \E c \in Callers : RdcCallback(c)
  \/ \E c \in Callers : RdcUpdateChunkStats(c)
  \/ \E c \in Callers : RdcSetNumRows(c)
  \/ \E c \in Callers : RcmEnter(c)
  \/ \E c \in Callers : RcmCallback(c)
  \/ \E c \in Callers : RcmUpdateChunkStats(c)
  \/ \E c \in Callers : RuEndTable(c)
  \/ \E c \in Callers : RuReturn(c)
  \/ \E c \in Callers : RmCheckpoint(c)
  \/ \E c \in Callers : RmClearMetaInfoCache(c)
  \/ \E c \in Callers : RmClearMemory(c)
  \/ \E c \in Callers : RmReturn(c)

SpecEntryPoints == InitEntryPoints /\ [][NextEntryPoints]_vars

\* Every caller calls recomputeMetadata once.
NextOnce ==
  \/ \E c \in Callers : RmCallOnce(c)
  \/ \E c \in Callers : RmResolve(c)
  \/ \E c \in Callers : RmDataLock(c)
  \/ \E c \in Callers : RmInstallArena(c)
  \/ \E c \in Callers : RdcEnter(c)
  \/ \E c \in Callers : RdcCallback(c)
  \/ \E c \in Callers : RdcUpdateChunkStats(c)
  \/ \E c \in Callers : RdcSetNumRows(c)
  \/ \E c \in Callers : RcmEnter(c)
  \/ \E c \in Callers : RcmCallback(c)
  \/ \E c \in Callers : RcmUpdateChunkStats(c)
  \/ \E c \in Callers : RmCheckpoint(c)
  \/ \E c \in Callers : RmClearMetaInfoCache(c)
  \/ \E c \in Callers : RmClearMemory(c)
  \/ \E c \in Callers : RmReturn(c)

SpecFaulty == InitFaulty /\ [][NextOnce]_vars

\* One recomputeMetadata call on a sharded table of up to MaxSharedRows rows.
InitShardedOnce ==
  /\ InitSharded
  /\ TableRows(nShards, frags) <= MaxSharedRows

SpecShardedOnce == InitShardedOnce /\ [][NextOnce]_vars

\* Two threads call recomputeMetadata through the same executor on the same
\* table, of up to MaxSharedRows rows, whose physical tables have one fragment
\* at most.
InitConcurrent ==
  /\ SmallTable
  /\ TableRows(nShards, frags) <= MaxSharedRows
  /\ \A t \in PhysIds(nShards) : Len(frags[t]) <= 1
  /\ xType = "kINT"
  /\ fault = NoFault
  /\ execute_mutex = 0
  /\ table_data_lock = 0
  /\ row_set_mem_owner_ = "null"
  /\ threads = Callers
  /\ call = [c \in Callers |-> CallIdle]
  /\ rghost = RGhostInit

\* The next step of caller c's call.
CallerStep(c) ==
  \/ RmCallOnce(c)
  \/ RmResolve(c)
  \/ RmDataLock(c)
  \/ RmInstallArena(c)
  \/ RdcEnter(c)
  \/ RdcCallback(c)
  \/ RdcUpdateChunkStats(c)
  \/ RdcSetNumRows(c)
  \/ RcmEnter(c)
  \/ RcmCallback(c)
  \/ RcmUpdateChunkStats(c)
  \/ RmCheckpoint(c)
  \/ RmClearMetaInfoCache(c)
  \/ RmClearMemory(c)
  \/ RmReturn(c)

\* Every thread is scheduled again and again: a call that can take its next
\* step (a blocked lock acquisition cannot) eventually takes it.
FairScheduling == \A c \in Callers : WF_vars(CallerStep(c))

SpecConcurrent == InitConcurrent /\ [][NextOnce]_vars /\ FairScheduling

\* ------------------------------------------ vacuumDeletedRows: the runs
\* A table for the vacuum: one fragment per physical table, only the marker
\* column matters (the x values of the live rows are all NULL).
InitVacuum ==
  /\ nShards \in 0..MaxShards
  /\ hasDeletedCol = TRUE
  /\ frags \in [PhysIds(nShards) ->
                  {<<f>> : f \in {g \in FragSet(MaxTableRows) : g.z = 0 /\ g.o = 0}}]
  /\ TableRows(nShards, frags) <= MaxTableRows
  /\ chunkStats = EmptyStore(nShards, frags)
  /\ numRows = [t \in PhysIds(nShards) |-> PhysRowsOf(frags[t])]
  /\ epoch \in [PhysIds(nShards) -> 0..(MaxEpoch - 1)]
  /\ vac = VacIdle
  /\ vghost = VGhostIdle
  /\ vlog = <<>>
  /\ gpusPresent = FALSE
  /\ xType = "kINT"
  /\ fault = NoFault
  /\ RecomputeIdle

NextVacuum ==
  \/ VacGetTableEpochs
  \/ VacDeleteRows
  \/ VacCheckpoint
  \/ VacCatch
  \/ VacGetShards
  \/ VacRemoveFragmenter
  \/ VacCompactDataFiles
  \/ VacReturn
  \/ VacAgain

SpecVacuum == InitVacuum /\ [][NextVacuum]_vars

\* ------------------------------------------------------ claims: vacuum
\* The exception a failing step of the try block raises.
ErrorOf(step) ==
  IF step = "vacuumDeletedRows" THEN "VacuumError" ELSE "CheckpointError"

TryFailed == vghost.failed \in {"vacuumDeletedRows", "checkpoint"}

VacEndedInError == vac.pc = "done" /\ vac.result # "ok"

C2_OriginalErrorSurfaces ==
  (vac.pc = "done" /\ vghost.restoreFailed) =>
     (vac.result = ErrorOf(vghost.failed) /\ vac.result # "SetEpochError")

\* The restoration failed and left an epoch that is not the recorded one.
C2_Witness ==
  /\ vac.pc = "done" /\ vghost.restoreFailed /\ TryFailed
  /\ epoch # vghost.pre
  /\ vac.result = "CheckpointError"

PassCompleted(c) == call[c].pc = "done" /\ call[c].result = "ok" /\ rghost.clean

\* The live non-null values of x in a fragment.
NonNull(f) == f.z + f.o

\* C4 as stated: after recomputeDeletedColumnMetadata the row count given to
\* setNumRows is the sum over the fragments of the live count L.
C4_TotalIsLiveSum ==
  \A c \in threads : (PassCompleted(c) /\ hasDeletedCol) =>
     \A t \in PhysIds(nShards) : numRows[t] = LiveRowsOf(frags[t])

\* C4 amended: the row count given to setNumRows is the sum over the fragments
\* of the physical row count P (deleted rows included).
C4_TotalIsPhysicalSum ==
  \A c \in threads : (PassCompleted(c) /\ hasDeletedCol) =>
     \A t \in PhysIds(nShards) : numRows[t] = PhysRowsOf(frags[t])

\* Two fragments, 1 row / 0 deleted and 2 rows / 1 deleted: 3 is published.
C4_Witness ==
  /\ PassCompleted(1) /\ hasDeletedCol
  /\ Len(frags[0]) = 2
  /\ getPhysicalNumTuples(frags[0][1]) = 1 /\ frags[0][1].del = 0
  /\ getPhysicalNumTuples(frags[0][2]) = 2 /\ frags[0][2].del = 1
  /\ <<"setNumRows", 0>> \in {call[1].log[i] : i \in 1..Len(call[1].log)}
  /\ numRows[0] = 3

\* The (min, max) the claim gives the $deleted column of a fragment of P rows
\* of which L are live.
MarkerMinMax(L, P) ==
  IF L = P THEN <<0, 0>> ELSE IF L = 0 THEN <<1, 1>> ELSE <<0, 1>>

\* C5: once recomputeDeletedColumnMetadata has updated the store, every
\* fragment with P > 0 rows has $deleted stats (0,0) if L = P, (1,1) if L = 0
\* and (0,1) otherwise, and tuple_count_map holds L under the fragment's id.
C5_MarkerStats ==
  \A c \in threads : call[c].pc = "setNumRows" =>
     \A fid \in 1..Len(frags[CurTable(c)]) :
        LET f == frags[CurTable(c)][fid]
            st == chunkStats[CurTable(c)][fid]["$deleted"]
        IN  getPhysicalNumTuples(f) > 0 =>
              /\ st.present
              /\ <<st.min, st.max>> = MarkerMinMax(LiveRows(f), getPhysicalNumTuples(f))
              /\ fid \in DOMAIN call[c].tuple_count_map
              /\ call[c].tuple_count_map[fid] = LiveRows(f)

\* One fragment wholly deleted and one partly deleted.
C5_Witness ==
  /\ call[1].pc = "setNumRows" /\ Len(frags[0]) = 2
  /\ frags[0][1] = Frag(1, 0, 0, 0) /\ frags[0][2] = Frag(1, 0, 1, 0)
  /\ chunkStats[0][1]["$deleted"] = Stats(1, 1, FALSE)
  /\ chunkStats[0][2]["$deleted"] = Stats(0, 1, FALSE)
  /\ call[1].tuple_count_map = (1 :> 0) @@ (2 :> 1)

\* C6: once recomputeColumnMetadata has updated the store for column x, every
\* fragment whose non-null COUNT is nonzero has has_nulls true iff that count
\* differs from the live count L (P when the table has no $deleted column).
C6_HasNulls ==
  \A c \in threads :
     (call[c].pc = "columns" /\ call[c].ci > 1) =>
        \A fid \in 1..Len(frags[CurTable(c)]) :
           LET f == frags[CurTable(c)][fid]
               st == chunkStats[CurTable(c)][fid]["x"]
           IN  NonNull(f) > 0 =>
                 /\ st.present
                 /\ st.has_nulls =
                      (NonNull(f) # IF hasDeletedCol THEN LiveRows(f)
                                                     ELSE getPhysicalNumTuples(f))

\* A fragment with a deleted row and no NULL among its live rows (has_nulls is
\* false although COUNT differs from P), beside one with a NULL.
C6_Witness ==
  /\ call[1].pc = "columns" /\ call[1].ci > 1 /\ Len(frags[0]) = 2
  /\ frags[0][1] = Frag(1, 1, 0, 0) /\ frags[0][2] = Frag(0, 0, 0, 1)
  /\ chunkStats[0][1]["x"] = Stats(0, 0, FALSE)

\* C7 as stated: after a recompute no fragment whose x has zero live non-null
\* values has a ChunkStats entry for x, whatever the store held before.
C7_NoEntryForAllNull ==
  \A c \in threads : PassCompleted(c) =>
     \A t \in PhysIds(nShards) : \A fid \in 1..Len(frags[t]) :
        NonNull(frags[t][fid]) = 0 => ~chunkStats[t][fid]["x"].present

\* C7 amended: the recompute writes no ChunkStats entry for a fragment whose x
\* has zero live non-null values: the store holds for it what it held when the
\* pass began (no entry if there was none, the old entry otherwise).
C7_AllNullLeftAsBefore ==
  \A c \in threads : PassCompleted(c) =>
     \A t \in PhysIds(nShards) : \A fid \in 1..Len(frags[t]) :
        NonNull(frags[t][fid]) = 0 =>
           chunkStats[t][fid]["x"] = rghost.start[t][fid]["x"]

\* The only valued row of a fragment was deleted between two passes: the
\* second pass leaves the entry of the first in the store.
C7_Witness ==
  /\ PassCompleted(1) /\ epoch[0] = 2
  /\ \E fid \in 1..Len(frags[0]) :
        /\ NonNull(frags[0][fid]) = 0 /\ frags[0][fid].del > 0
        /\ chunkStats[0][fid]["x"].present

\* C8: a pass that follows a completed pass with no change of a row in between
\* leaves every ChunkStats and the published row count as that pass left them.
C8_Idempotent ==
  \A c \in threads :
     (call[c].pc = "done" /\ call[c].result = "ok" /\ rghost.first.valid) =>
        /\ chunkStats = rghost.first.chunkStats
        /\ numRows = rghost.first.numRows

\* A second pass over a table with statistics and deleted rows.
C8_Witness ==
  /\ call[1].pc = "done" /\ call[1].result = "ok" /\ rghost.first.valid
  /\ epoch[0] = 2 /\ Len(frags[0]) = 2
  /\ chunkStats[0][1]["x"].present /\ chunkStats[0][2]["$deleted"].present
  /\ frags[0][2].del > 0

\* ------------------------------------------------------ claims: locking
\* The positions at which the next step of recomputeMetadata works on the
\* table after line 136.
AfterDataLock ==
  {"loop", "deleted", "deletedProbe", "setNumRows", "columns", "columnProbe",
   "clearMetaInfoCache", "return"}

\* C9 as stated: every step that reads or writes table state, the resolution
\* of the physical shards included, runs with both locks held.
C9_BothLocksAtEveryStep ==
  \A c \in threads :
     (call[c].pc \in AfterDataLock \/ (call[c].pc = "resolve" /\ nShards > 0)) =>
        (execute_mutex = c /\ table_data_lock = c)

\* C9 amended: the execute mutex is held from line 118 to the exit, and the
\* table-data write lock from line 136 to the exit: probes, ChunkStats updates,
\* setNumRows, checkpoints and cache clears run with both held, but the
\* physical shards are resolved (line 126) under the execute mutex alone.
C9_LocksHeld ==
  \A c \in threads :
     /\ call[c].pc \in AfterDataLock \cup {"resolve", "dataLock"} => execute_mutex = c
     /\ call[c].pc \in AfterDataLock => table_data_lock = c
     /\ call[c].pc \in {"resolve", "dataLock"} => table_data_lock # c

\* The second shard is being probed with both locks held.
C9_Witness ==
  /\ nShards = 2 /\ call[1].pc = "columnProbe" /\ call[1].ti = 2
  /\ execute_mutex = 1 /\ table_data_lock = 1

\* C10: whenever recomputeMetadata has exited, normally or by an exception,
\* the caller holds neither lock and row_set_mem_owner_ is null.
C10_ExitReleasesAll ==
  \A c \in threads : call[c].pc = "done" =>
     /\ execute_mutex # c
     /\ table_data_lock # c
     /\ row_set_mem_owner_ = "null"

\* The checkpoint of the second shard threw, with the arena installed.
C10_Witness ==
  /\ nShards = 2 /\ call[1].pc = "done" /\ call[1].result = "CheckpointError"
  /\ call[1].ti = 2
  /\ execute_mutex = 0 /\ table_data_lock = 0 /\ row_set_mem_owner_ = "null"

\* ------------------------------------------------ claims: entry points
\* The entries of a call's log.
Logged(c) == {call[c].log[i] : i \in 1..Len(call[c].log)}

\* The statistics-store updates a call made for column cd of table t.
UpdatesOf(c, t, cd) ==
  {i \in 1..Len(call[c].log) :
     /\ call[c].log[i][1] = "updateChunkStats"
     /\ call[c].log[i][2] = t
     /\ call[c].log[i][3] = cd}

\* The live-count map the derivation produces for table t.
DerivedCounts(t) ==
  IF hasDeletedCol
    THEN [fid \in {i \in 1..Len(frags[t]) : getPhysicalNumTuples(frags[t][i]) > 0} |->
            LiveRows(frags[t][fid])]
    ELSE EmptyMap

\* C11: in both entry points, while the columns of a table are processed the
\* derivation of the live counts of that table is complete (its update of the
\* store and its setNumRows are done when the table has a $deleted column)
\* and the map the columns read is the one it produced; while the derivation
\* runs no column of the table has been processed in the pass.
C11_DerivationBeforeColumns ==
  \A c \in threads :
     /\ call[c].pc \in {"columns", "columnProbe"} =>
          /\ hasDeletedCol =>
               /\ UpdatesOf(c, CurTable(c), "$deleted") # {}
               /\ <<"setNumRows", CurTable(c)>> \in Logged(c)
          /\ call[c].tuple_count_map = DerivedCounts(CurTable(c))
     /\ call[c].pc \in {"deleted", "deletedProbe", "setNumRows"} =>
          \A cd \in {"x", "a"} : UpdatesOf(c, CurTable(c), cd) = {}

\* recomputeMetadataUnlocked probes x of the second shard with the live count
\* of that shard, which differs from the first shard's.
C11_Witness ==
  /\ hasDeletedCol /\ nShards = 2
  /\ call[1].entry = "recomputeMetadataUnlocked"
  /\ call[1].pc = "columnProbe" /\ call[1].ti = 2 /\ call[1].cd = "x"
  /\ frags[1][1] = Frag(0, 1, 0, 0) /\ frags[2][1] = Frag(1, 0, 0, 0)
  /\ call[1].tuple_count_map = (1 :> 0)

\* ------------------------------------------------ claims: order of steps
\* The positions of an entry in a call's log.
At(c, e) == {i \in 1..Len(call[c].log) : call[c].log[i] = e}

\* The positions of the log entries about table t.
StepsOf(c, t) ==
  {i \in 1..Len(call[c].log) :
     call[c].log[i][1] \in {"updateChunkStats", "setNumRows", "checkpoint",
                            "clearMetaInfoCache"} /\ call[c].log[i][2] = t}

\* C12: in recomputeMetadata the shards are processed in turn; a shard's
\* statistics updates (the marker's, then every eligible column's) precede its
\* one checkpoint, which precedes its clearMetaInfoCache; clearMemory runs for
\* the CPU level (and the GPU level iff gpusPresent) only after every shard is
\* checkpointed, and never in a call in which a step threw.
C12_StepOrder ==
  \A c \in threads : call[c].entry = "recomputeMetadata" =>
     LET steps == [t \in PhysIds(nShards) |-> StepsOf(c, t)]
         cps   == [t \in PhysIds(nShards) |-> At(c, <<"checkpoint", t>>)]
         cms   == [t \in PhysIds(nShards) |-> At(c, <<"clearMetaInfoCache", t>>)]
         cpu   == At(c, <<"clearMemory", "CPU_LEVEL">>)
         gpu   == At(c, <<"clearMemory", "GPU_LEVEL">>)
     IN
     /\ \A t \in PhysIds(nShards) :
          LET del == UpdatesOf(c, t, "$deleted")
              upx == UpdatesOf(c, t, "x")
              snr == At(c, <<"setNumRows", t>>)
          IN
          /\ Cardinality(cps[t]) <= 1
          /\ \A i \in cps[t] :
               /\ \A j \in del \cup upx \cup snr : j < i
               /\ upx # {}
               /\ hasDeletedCol => del # {}
          /\ \A i \in del : \A j \in upx : i < j
          /\ \A j \in cms[t] : \E i \in cps[t] : i < j
          /\ \A u \in PhysIds(nShards) : t < u =>
               \A i \in steps[t] : \A j \in steps[u] : i < j
          /\ steps[t] # {} /\ cms[t] = {} =>
               \A u \in PhysIds(nShards) : t < u => steps[u] = {}
     /\ \A k \in cpu :
          /\ \A t \in PhysIds(nShards) : \E i \in cps[t] : i < k
          /\ \A t \in PhysIds(nShards) : \E i \in cms[t] : i < k
     /\ gpu # {} => gpusPresent /\ cpu # {}
     /\ (call[c].pc = "done" /\ call[c].result = "ok") =>
          /\ \A t \in PhysIds(nShards) : Cardinality(cps[t]) = 1
          /\ Cardinality(cpu) = 1
          /\ gpusPresent <=> Cardinality(gpu) = 1
     /\ (call[c].pc = "done" /\ call[c].result # "ok") =>
          /\ cpu = {}
          /\ gpu = {}

\* Two shards with a $deleted column and GPUs: both caches are cleared last.
C12_Witness ==
  /\ nShards = 2 /\ hasDeletedCol /\ gpusPresent
  /\ call[1].pc = "done" /\ call[1].result = "ok"
  /\ Len(call[1].log) = 12
  /\ call[1].log[11] = <<"clearMemory", "CPU_LEVEL">>
  /\ call[1].log[12] = <<"clearMemory", "GPU_LEVEL">>
  /\ call[1].log[10] = <<"clearMetaInfoCache", 2>>

\* ---------------------------------- claims: recomputeMetadataUnlocked
\* C13: every statistics-store update of a recomputeMetadataUnlocked call,
\* the marker column's included, is scoped to the memory tier (none is
\* durable), the call issues no checkpoint and holds neither lock.
C13_UnlockedUpdatesScoped ==
  \A c \in threads : call[c].entry = "recomputeMetadataUnlocked" =>
     /\ \A i \in 1..Len(call[c].log) :
          /\ call[c].log[i][1] = "updateChunkStats" => call[c].log[i][4] = "CPU_LEVEL"
          /\ call[c].log[i][1] # "checkpoint"
     /\ execute_mutex # c
     /\ table_data_lock # c

\* The (table, fragment, column) is named by the call's optimize_candidates.
Named(c, t, fid, cd) ==
  /\ <<t, cd>> \in DOMAIN call[c].optimize_candidates
  /\ fid \in call[c].optimize_candidates[<<t, cd>>]

\* C14: a recomputeMetadataUnlocked call leaves the ChunkStats of every
\* (fragment, column) of a data column that its selection does not name as
\* they were when the call began, also when a column is mapped to no fragment.
C14_UnnamedUnchanged ==
  \A c \in threads : call[c].entry = "recomputeMetadataUnlocked" =>
     \A t \in PhysIds(nShards) : \A fid \in 1..Len(frags[t]) : \A cd \in {"x", "a"} :
        ~Named(c, t, fid, cd) => chunkStats[t][fid][cd] = rghost.start[t][fid][cd]

\* The (table, fragment, column) is one the call's optimize_candidates
\* selects: an empty set of fragment ids selects every fragment.
Selected(c, t, fid, cd) ==
  /\ <<t, cd>> \in DOMAIN call[c].optimize_candidates
  /\ \/ call[c].optimize_candidates[<<t, cd>>] = {}
     \/ fid \in call[c].optimize_candidates[<<t, cd>>]

\* C14 amended: a recomputeMetadataUnlocked call leaves the ChunkStats of
\* every (fragment, column) of a data column as they were when the call began
\* unless its selection names the column with that fragment or with an empty
\* set of fragments, which stands for all fragments of the table.
C14_UnselectedUnchanged ==
  \A c \in threads : call[c].entry = "recomputeMetadataUnlocked" =>
     \A t \in PhysIds(nShards) : \A fid \in 1..Len(frags[t]) : \A cd \in {"x", "a"} :
        ~Selected(c, t, fid, cd) => chunkStats[t][fid][cd] = rghost.start[t][fid][cd]

\* x is named with the first of two fragments: only that one gets statistics.
C14_Witness ==
  /\ call[1].entry = "recomputeMetadataUnlocked"
  /\ call[1].pc = "done" /\ call[1].result = "ok"
  /\ nShards = 0 /\ Len(frags[0]) = 2
  /\ frags[0][1].z = 1 /\ frags[0][2].z = 1
  /\ call[1].optimize_candidates = (<<0, "x">> :> {1})
  /\ chunkStats[0][1]["x"] = Stats(0, 0, FALSE)
  /\ chunkStats[0][2]["x"] = NoStats

\* ------------------------------------------- claims: partition failures
\* The executor hands the callback of fragment fid of table t a malformed row,
\* and the callback reads it.
Malformed(t, fid) ==
  /\ fault.kind # "none" /\ fault.fid = fid
  /\ fid \in 1..Len(frags[t])
  /\ getPhysicalNumTuples(frags[t][fid]) > 0

\* x has a type set_metadata_from_results has no case for.
Unsupported == xType \notin Int64Types

\* C15 as stated: a malformed result row, a value of the wrong type or an
\* unsupported type never aborts the pass; the partition gets no entry for
\* the column and the call completes.
C15_FailureSkipsPartition ==
  \A c \in threads :
     /\ call[c].pc # "aborted"
     /\ (call[c].pc = "done" /\ call[c].result = "ok") =>
          \A t \in PhysIds(nShards) : \A fid \in 1..Len(frags[t]) :
             (Malformed(t, fid) \/ Unsupported) => chunkStats[t][fid]["x"] = NoStats

\* C15 amended: an unsupported type is skipped (no entry for the column, the
\* marker and every shard are still processed, the call completes), but a
\* result row of the wrong arity or with a value of the wrong type fails a
\* CHECK: the callback that reads it never returns and the operation aborts.
C15_UnsupportedSkippedMalformedAborts ==
  \A c \in threads :
     /\ call[c].pc = "aborted" =>
          \E fid \in 1..Len(frags[CurTable(c)]) : Malformed(CurTable(c), fid)
     /\ call[c].pc \in {"deletedProbe", "columnProbe"} =>
          \A fid \in call[c].visited : ~Malformed(CurTable(c), fid)
     /\ (call[c].pc = "done" /\ call[c].result = "ok") =>
          \A t \in PhysIds(nShards) :
             /\ At(c, <<"checkpoint", t>>) # {}
             /\ \A fid \in 1..Len(frags[t]) :
                  /\ ~Malformed(t, fid)
                  /\ Unsupported => chunkStats[t][fid]["x"] = NoStats
                  /\ (~Unsupported /\ NonNull(frags[t][fid]) > 0) =>
                        chunkStats[t][fid]["x"].present
                  /\ (hasDeletedCol /\ getPhysicalNumTuples(frags[t][fid]) > 0) =>
                        chunkStats[t][fid]["$deleted"].present

\* x has an unsupported type in two shards with a $deleted column: the pass
\* completes, the marker has statistics and x has none.
C15_Witness ==
  /\ Unsupported /\ fault = NoFault /\ nShards = 2 /\ hasDeletedCol
  /\ call[1].pc = "done" /\ call[1].result = "ok"
  /\ frags[1][1] = Frag(0, 1, 0, 0) /\ frags[2][1] = Frag(0, 1, 0, 0)
  /\ chunkStats[1][1]["x"] = NoStats /\ chunkStats[2][1]["x"] = NoStats
  /\ chunkStats[2][1]["$deleted"] = Stats(0, 0, FALSE)
  /\ At(1, <<"checkpoint", 2>>) # {}

\* ------------------------------------------- claims: ineligible columns
\* C16: in both entry points the variable-length column a is skipped: it is
\* never probed, the call makes no statistics-store update for it, its
\* ChunkStats stay as they were when the call began, and the columns listed
\* after it are processed.
C16_VarlenSkipped ==
  \A c \in threads : call[c].entry # "none" =>
     /\ call[c].pc # "aborted"
     /\ call[c].pc = "columnProbe" => ~is_varlen(ColumnType(call[c].cd))
     /\ \A t \in PhysIds(nShards) :
          /\ UpdatesOf(c, t, "a") = {}
          /\ \A fid \in 1..Len(frags[t]) :
               chunkStats[t][fid]["a"] = rghost.start[t][fid]["a"]
     /\ (call[c].pc = "done" /\ call[c].result = "ok") =>
          \A i \in 1..Len(call[c].table_descriptors) :
             LET t == call[c].table_descriptors[i]
                 cols == IF call[c].entry = "recomputeMetadata"
                           THEN getAllColumnMetadataForTable
                           ELSE call[c].columns_by_table_id[t]
             IN  \A j \in 1..Len(cols) : cols[j] = "x" => UpdatesOf(c, t, "x") # {}

\* recomputeMetadataUnlocked is given a before x: x gets its statistics.
C16_Witness ==
  /\ call[1].entry = "recomputeMetadataUnlocked"
  /\ call[1].pc = "done" /\ call[1].result = "ok"
  /\ nShards = 0 /\ call[1].columns_by_table_id = (0 :> <<"a", "x">>)
  /\ Len(frags[0]) = 1 /\ frags[0][1].z = 1
  /\ chunkStats[0][1]["x"].present /\ chunkStats[0][1]["a"] = NoStats
  /\ UpdatesOf(1, 0, "x") # {} /\ UpdatesOf(1, 0, "a") = {}

\* ------------------------------------------------ claims: batch update
\* C17: while the fragments of a column are visited the store holds for the
\* column what it held when the call began and no update was made; a call
\* updates the store at most once per table and column, after the callback of
\* every fragment to process has run, and the store then holds the batch.
C17_OneBatchAfterAllCallbacks ==
  \A c \in threads : call[c].entry # "none" =>
     /\ call[c].pc = "columnProbe" =>
          /\ UpdatesOf(c, CurTable(c), call[c].cd) = {}
          /\ \A fid \in 1..Len(frags[CurTable(c)]) :
               chunkStats[CurTable(c)][fid][call[c].cd] =
                 rghost.start[CurTable(c)][fid][call[c].cd]
     /\ \A t \in PhysIds(nShards) : Cardinality(UpdatesOf(c, t, "x")) <= 1
     /\ (call[c].pc = "columns" /\ call[c].cd = "x"
           /\ UpdatesOf(c, CurTable(c), "x") # {}) =>
          /\ call[c].visited =
               FragmentsToProcess(frags[CurTable(c)], call[c].fragment_ids)
          /\ \A fid \in 1..Len(frags[CurTable(c)]) :
               chunkStats[CurTable(c)][fid]["x"] =
                 IF fid \in DOMAIN call[c].stats_map
                   THEN call[c].stats_map[fid]
                   ELSE rghost.start[CurTable(c)][fid]["x"]

\* One of two fragments has been visited: its statistics are in the batch and
\* not in the store.
C17_Witness ==
  /\ call[1].pc = "columnProbe" /\ call[1].cd = "x" /\ nShards = 0
  /\ Len(frags[0]) = 2 /\ frags[0][1].z = 1 /\ frags[0][2].z = 1
  /\ call[1].visited = {1}
  /\ call[1].stats_map = (1 :> Stats(0, 0, FALSE))
  /\ chunkStats[0][1]["x"] = NoStats /\ chunkStats[0][2]["x"] = NoStats

\* ------------------------------------------------ claims: empty fragments
\* The fragments of table t without a physical row.
EmptyFragments(t) ==
  {fid \in 1..Len(frags[t]) : getPhysicalNumTuples(frags[t][fid]) = 0}

\* C18: a fragment without physical rows gets no entry in the stats batch, in
\* the live-count map or in the store, and adds 0 to the total row count; its
\* result row is not read (a malformed row for it fails no CHECK).
C18_EmptyFragmentSkipped ==
  \A c \in threads :
     /\ call[c].pc \in {"deletedProbe", "columnProbe"} =>
          \A fid \in EmptyFragments(CurTable(c)) : fid \notin DOMAIN call[c].stats_map
     /\ call[c].pc \in {"deletedProbe", "setNumRows", "columns", "columnProbe"} =>
          \A fid \in EmptyFragments(CurTable(c)) :
             fid \notin DOMAIN call[c].tuple_count_map
     /\ call[c].pc = "deletedProbe" =>
          call[c].total_num_tuples =
            PhysRowsOf([i \in 1..Len(frags[CurTable(c)]) |->
                          IF i \in call[c].visited \ EmptyFragments(CurTable(c))
                            THEN frags[CurTable(c)][i] ELSE Frag(0, 0, 0, 0)])
     /\ call[c].pc = "aborted" =>
          fault.fid \in (1..Len(frags[CurTable(c)])) \ EmptyFragments(CurTable(c))
     /\ \A t \in PhysIds(nShards) : \A fid \in EmptyFragments(t) :
          \A cd \in ColumnNames : chunkStats[t][fid][cd] = NoStats

\* The executor has a malformed row for the empty first fragment: the pass
\* completes and counts the rows of the second fragment only.
C18_Witness ==
  /\ fault = [kind |-> "arity", fid |-> 1] /\ xType = "kINT"
  /\ nShards = 0 /\ hasDeletedCol /\ Len(frags[0]) = 2
  /\ frags[0][1] = Frag(0, 0, 0, 0) /\ frags[0][2] = Frag(1, 1, 0, 0)
  /\ call[1].pc = "done" /\ call[1].result = "ok"
  /\ numRows[0] = 2
  /\ chunkStats[0][1]["$deleted"] = NoStats /\ chunkStats[0][1]["x"] = NoStats
  /\ chunkStats[0][2]["$deleted"] = Stats(0, 1, FALSE)

\* ------------------------------------------- claims: vacuum, after commit
\* The positions of the vacuum log that drop a fragmenter or compact files.
ShardSteps ==
  {i \in 1..Len(vlog) : vlog[i][1] \in {"removeFragmenterForTable", "compactDataFiles"}}

\* What a complete loop over the physical tables logs: for each one in turn
\* its fragmenter dropped, then its files compacted.
RECURSIVE ShardPass(_)
ShardPass(shards) ==
  IF shards = <<>> THEN <<>>
  ELSE <<<<"removeFragmenterForTable", Head(shards)>>,
         <<"compactDataFiles", Head(shards)>>>> \o ShardPass(Tail(shards))

\* C19: a fragmenter is dropped and data files are compacted only after the
\* delete and the checkpoint both succeeded; when the call succeeds that was
\* done for every physical table, the drop before the compaction; when the
\* delete or the checkpoint failed it was done for none.
C19_ShardStepsAfterCommit ==
  /\ \A i \in ShardSteps :
        /\ i >= 3
        /\ vlog[1] = <<"vacuumDeletedRows", "ok">>
        /\ vlog[2] = <<"checkpoint", "ok">>
        /\ epoch = [t \in PhysIds(nShards) |-> vghost.pre[t] + 1]
  /\ (vac.pc = "done" /\ vac.result = "ok") =>
        vlog = <<<<"vacuumDeletedRows", "ok">>, <<"checkpoint", "ok">>>>
                 \o ShardPass(getPhysicalTablesDescriptors(nShards))
  /\ TryFailed => ShardSteps = {}

\* A successful call on a table of two shards.
C19_Witness ==
  /\ vac.pc = "done" /\ vac.result = "ok" /\ nShards = 2
  /\ vlog = <<<<"vacuumDeletedRows", "ok">>, <<"checkpoint", "ok">>,
              <<"removeFragmenterForTable", 1>>, <<"compactDataFiles", 1>>,
              <<"removeFragmenterForTable", 2>>, <<"compactDataFiles", 2>>>>

\* --------------------------------------------- claims: concurrent calls
\* Caller c is inside recomputeMetadata, past line 118.
Inside(c) == call[c].pc \notin {"idle", "done"}

\* A step that writes the statistics store, a row count or an epoch.
StoreWrite == chunkStats' # chunkStats \/ numRows' # numRows \/ epoch' # epoch

\* C20: concurrent recomputeMetadata calls on one executor and table are
\* serialized and never deadlock: at most one call is past line 118, the data
\* lock is only taken by the holder of the execute mutex, every store write is
\* made by a call that holds both locks while no other call is under way, and
\* under fair scheduling every call eventually exits.
C20_SerializedAndLive ==
  /\ [](\A c, d \in threads : (Inside(c) /\ Inside(d)) => c = d)
  /\ [](\A c \in threads : /\ Inside(c) => execute_mutex = c
                           /\ table_data_lock = c => execute_mutex = c)
  /\ [][StoreWrite =>
          \E c \in threads :
             /\ execute_mutex = c /\ table_data_lock = c
             /\ call'[c] # call[c]
             /\ \A d \in threads \ {c} : ~Inside(d) /\ call'[d] = call[d]]_vars
  /\ <>[](\A c \in threads : call[c].pc = "done" /\ execute_mutex = 0
                               /\ table_data_lock = 0)

\* Both calls ran to the end, one after the other, and each one wrote the
\* statistics of the first shard and checkpointed both shards.
C20_Witness ==
  /\ threads = {1, 2}
  /\ \A c \in threads :
        /\ call[c].pc = "done" /\ call[c].result = "ok"
        /\ <<"updateChunkStats", 1, "x", "durable">> \in Logged(c)
        /\ <<"checkpoint", 1>> \in Logged(c) /\ <<"checkpoint", 2>> \in Logged(c)
  /\ nShards = 2
  /\ chunkStats[1][1]["x"].present
  /\ execute_mutex = 0 /\ table_data_lock = 0

====
